---- MODULE Spec2Model ----
(***************************************************************************)
(* Skill-tree builder of src/newServer.js: the recursive async function    *)
(* generateSkillTree_Gemini, the content synthesizer                       *)
(* generateSkillContent_Gemini, the file cache under skill_data/ and the   *)
(* POST /get-skills handler that drives them.                              *)
(*                                                                         *)
(* Node.js runs one macrotask at a time.  A build only suspends at an      *)
(* await: a call to the external model, or the await of a child build.     *)
(* fs.existsSync / readFileSync / writeFileSync are synchronous and are    *)
(* part of the step that executes them.  A step of the model is one        *)
(* macrotask (the arrival of a request, the arrival of a model response)   *)
(* or one promise continuation (microtask); macrotasks are taken only      *)
(* when no continuation is pending.                                        *)
(***************************************************************************)
EXTENDS Integers, Sequences, FiniteSets, TLC

(***************************************************************************)
(* Bounds of the exploration                                               *)
(***************************************************************************)
MaxRequests == 3
MaxConcurrentRequests == 2
MaxAnomalies == 2
MaxConcurrentAnomalies == 1
MaxRawChildren == 8
MaxTopicLen == 2
MaxDeepRequests == 1
MaxDeepDepth == 2
MaxDeepAnomalies == 1

(***************************************************************************)
(* Program constants                                                       *)
(***************************************************************************)
RootMaxChildren == 6
InnerMaxChildren == 4
DefaultMaxDepth == 0
EndpointMaxDepth == 1

(***************************************************************************)
(* Inputs: topic strings are sequences of characters                       *)
(***************************************************************************)
TopicA == <<"a">>
TopicB == <<"b">>
TopicBUpper == <<"B">>
Topics == {TopicA, TopicB}
AncestorChoices == {<<>>}
DepthChoices == {DefaultMaxDepth, EndpointMaxDepth}
Clients == {1, 2}

LowerCase == {"a", "b"}
UpperCase == {"A", "B"}
Digits == {"1"}

(***************************************************************************)
(* JavaScript objects are functions from field names to values; a field    *)
(* that is undefined is a field outside the domain.                        *)
(***************************************************************************)
Has(obj, k) == k \in DOMAIN obj

\* { ...a, ...b }
Spread(a, b) ==
  [k \in DOMAIN a \cup DOMAIN b |-> IF k \in DOMAIN b THEN b[k] ELSE a[k]]

\* obj[k] = v
SetField(obj, k, v) ==
  [x \in DOMAIN obj \cup {k} |-> IF x = k THEN v ELSE obj[x]]

NoFields == [k \in {} |-> <<>>]

(***************************************************************************)
(* Topic key normalizer                                                    *)
(***************************************************************************)
\* (variant: the case of every letter is swapped)
toLowerCase_swapCase(c) ==
  CASE c = "A" -> "a"
    [] c = "B" -> "b"
    [] c = "a" -> "A"
    [] c = "b" -> "B"
    [] OTHER -> c

toLowerCase(c) ==
  CASE c = "A" -> "a"
    [] c = "B" -> "b"
    [] OTHER -> c

sanitizeTopicName(topic) ==
  [i \in 1..Len(topic) |->
     toLowerCase(IF topic[i] \in LowerCase \cup UpperCase \cup Digits \cup {"-"}
                 THEN topic[i] ELSE "_")]

\* files: the content of skill_data/, a function from key to stored node
\* (variant: the name is looked up as given, without sanitizing it)
jsonFileExists_unsanitized(topic, files) == topic \in DOMAIN files

jsonFileExists(topic, files) == sanitizeTopicName(topic) \in DOMAIN files

\* (variant: the write leaves the new file alone in the directory)
writeFileSync_alone(files, key, node) == [k \in {key} |-> node]

\* (variant: the write is lost)
writeFileSync_lost(files, key, node) == files

writeFileSync(files, key, node) ==
  [k \in DOMAIN files \cup {key} |-> IF k = key THEN node ELSE files[k]]

(***************************************************************************)
(* Responses of the external model.  A response either throws or carries   *)
(* a text; a text is a sequence of tokens: an opening fence, a closing     *)
(* fence, white space, a JSON value or prose that is not JSON.             *)
(***************************************************************************)
FenceOpen == [kind |-> "fence-json"]
FenceClose == [kind |-> "fence"]
WhiteSpace == [kind |-> "ws"]
Prose == [kind |-> "prose"]
Json(v) == [kind |-> "json", value |-> v]

ErrCall == "fetch failed"
ErrParse == "Unexpected token"

Threw(msg) == [threw |-> TRUE, message |-> msg, text |-> <<>>]
Text(t) == [threw |-> FALSE, message |-> "", text |-> t]

RECURSIVE trimStart(_)
trimStart(t) ==
  IF t # <<>> /\ Head(t).kind = "ws" THEN trimStart(Tail(t)) ELSE t

RECURSIVE trimEnd(_)
trimEnd(t) ==
  IF t # <<>> /\ t[Len(t)].kind = "ws" THEN trimEnd(SubSeq(t, 1, Len(t) - 1)) ELSE t

\* the CLEANING LOGIC blocks
Clean(t) ==
  LET t1 == IF t # <<>> /\ Head(t).kind = "fence-json" THEN Tail(t) ELSE t
      t2 == IF t1 # <<>> /\ t1[Len(t1)].kind = "fence"
            THEN SubSeq(t1, 1, Len(t1) - 1) ELSE t1
  IN trimEnd(trimStart(t2))

\* JSON.parse: a value, or a SyntaxError
JSONparse(t) ==
  IF Len(t) = 1 /\ t[1].kind = "json"
  THEN [ok |-> TRUE, value |-> t[1].value, message |-> ""]
  ELSE [ok |-> FALSE, value |-> NoFields, message |-> ErrParse]

\* the body of a try block up to and including JSON.parse
CallAndParse(response) ==
  IF response.threw
  THEN [ok |-> FALSE, value |-> NoFields, message |-> response.message]
  ELSE JSONparse(Clean(response.text))

Wrappings(v) ==
  { <<Json(v)>>,
    <<FenceOpen, WhiteSpace, Json(v), WhiteSpace, FenceClose>> }

(***************************************************************************)
(* Content values                                                          *)
(***************************************************************************)
TreeProblems == <<[q |-> "q-tree", s |-> "s-tree"]>>
TreeVideos == <<[title |-> "t-tree", url |-> "u-tree"]>>
ContentProblems == <<[q |-> "q-content", s |-> "s-content"]>>
ContentVideos == <<[title |-> "t-content", url |-> "u-content"]>>

ContentObjects ==
  { [practiceProblems |-> ContentProblems, videoTutorials |-> ContentVideos],
    [practiceProblems |-> <<>>, videoTutorials |-> <<>>],
    [practiceProblems |-> ContentProblems, videoTutorials |-> <<>>],
    NoFields,
    [practiceProblems |-> ContentProblems, videoTutorials |-> ContentVideos,
     name |-> TopicBUpper] }

ContentResponses ==
  {Threw(ErrCall), Text(<<Prose>>)}
    \cup {Text(t) : t \in UNION {Wrappings(v) : v \in ContentObjects}}

Stub(n) == [name |-> n]

ChildLists ==
  { <<>>,
    <<Stub(TopicB), Stub(TopicBUpper)>> }

TreeContents ==
  { [practiceProblems |-> TreeProblems, videoTutorials |-> TreeVideos],
    NoFields }

\* the model names the node as it was asked
ResponseNames(skillName) == {skillName}

TreeObjects(skillName) ==
  { Spread([name |-> n, children |-> kids], content) :
      n \in ResponseNames(skillName), kids \in ChildLists, content \in TreeContents }

TreeResponses(skillName) ==
  {Threw(ErrCall), Text(<<Prose>>)}
    \cup {Text(t) : t \in UNION {Wrappings(v) : v \in TreeObjects(skillName)}}

\* a response off the expected path: the call threw, the text is not JSON,
\* or a content list is missing or empty
IsAnomaly(response) ==
  LET parsed == CallAndParse(response)
  IN \/ ~parsed.ok
     \/ ~Has(parsed.value, "practiceProblems")
     \/ parsed.value.practiceProblems = <<>>
     \/ ~Has(parsed.value, "videoTutorials")
     \/ parsed.value.videoTutorials = <<>>

\* a response to the content call off the expected path: as above, or an
\* object that carries other fields than the two lists
IsContentAnomaly(response) ==
  \/ IsAnomaly(response)
  \/ ~(DOMAIN CallAndParse(response).value \subseteq {"practiceProblems", "videoTutorials"})

(***************************************************************************)
(* Content synthesizer                                                     *)
(***************************************************************************)
\* (variant: the catch block returns an object without the two lists)
generateSkillContent_Gemini_bare(response) ==
  LET parsed == CallAndParse(response)
  IN IF parsed.ok THEN parsed.value ELSE NoFields

generateSkillContent_Gemini(response) ==
  LET parsed == CallAndParse(response)
  IN IF parsed.ok
     THEN parsed.value
     ELSE [practiceProblems |-> <<>>, videoTutorials |-> <<>>]

\* how the call made by generateSkillContent_Gemini ended
Outcome(response) ==
  IF response.threw THEN "threw"
  ELSE IF ~JSONparse(Clean(response.text)).ok THEN "unparsable"
  ELSE "parsed"

(***************************************************************************)
(* Node predicates and policies of generateSkillTree_Gemini                *)
(***************************************************************************)
\* !d.practiceProblems || d.practiceProblems.length === 0 ||
\* !d.videoTutorials || d.videoTutorials.length === 0
NeedsContent(d) ==
  \/ ~Has(d, "practiceProblems")
  \/ Len(d.practiceProblems) = 0
  \/ ~Has(d, "videoTutorials")
  \/ Len(d.videoTutorials) = 0

\* d.children && d.children.length > 0
HasChildren(d) == Has(d, "children") /\ Len(d.children) > 0

\* child.practiceProblems === undefined
IsStub(child) == ~Has(child, "practiceProblems")

\* (variant: the flag is not set)
Collapse_unset(node) == node

\* c.collapsed = true
Collapse(node) == SetField(node, "collapsed", TRUE)

\* (variant: the stubs are left unmarked)
MarkChildren_unmarked(d) == d

\* d.children.forEach(c => { c.collapsed = true })
MarkChildren(d) ==
  IF HasChildren(d)
  THEN SetField(d, "children", [i \in 1..Len(d.children) |-> Collapse(d.children[i])])
  ELSE d

\* data.children.filter(child => !jsonFileExists(child.name))
FilterChildren(children, files) ==
  SelectSeq(children, LAMBDA child : ~jsonFileExists(child.name, files))

\* (variant: the cap of a request root is applied to every node)
maxAllowedChildren_flat(ancestors) == RootMaxChildren

maxAllowedChildren(ancestors) ==
  IF Len(ancestors) = 0 THEN RootMaxChildren ELSE InnerMaxChildren

\* data.children.slice(0, maxAllowedChildren) when the list is longer
TruncateChildren(children, ancestors) ==
  IF Len(children) > maxAllowedChildren(ancestors)
  THEN SubSeq(children, 1, maxAllowedChildren(ancestors))
  ELSE children

\* the "Filter/truncate children" block
FilterTruncate(data, ancestors, files) ==
  IF HasChildren(data)
  THEN SetField(data, "children",
                TruncateChildren(FilterChildren(data.children, files), ancestors))
  ELSE data

\* (variant: the children are hydrated whether or not they are stubs)
ShouldHydrate_anyChildren(depth, maxDepth, existingData) ==
  depth < maxDepth /\ HasChildren(existingData)

\* (variant: the depth test is off by one)
ShouldHydrate_offByOne(depth, maxDepth, existingData) ==
  /\ depth <= maxDepth
  /\ HasChildren(existingData)
  /\ IsStub(existingData.children[1])

\* the condition of the CACHE HYDRATION FIX block
ShouldHydrate(depth, maxDepth, existingData) ==
  /\ depth < maxDepth
  /\ HasChildren(existingData)
  /\ IsStub(existingData.children[1])

\* (variant: the depth comparison is reversed)
ShouldPregenerate_reversed(depth, maxDepth, data) ==
  depth > maxDepth /\ HasChildren(data)

\* (variant: the depth test is off by one)
ShouldPregenerate_offByOne(depth, maxDepth, data) ==
  depth <= maxDepth /\ HasChildren(data)

\* the condition of the RECURSIVE PRE-GENERATION block
ShouldPregenerate(depth, maxDepth, data) ==
  depth < maxDepth /\ HasChildren(data)

\* (variant: the node is named by its cache key)
DegradedNode_keyed(skillName, message) ==
  [name |-> sanitizeTopicName(skillName),
   description |-> <<"Error generating data for", skillName>>,
   children |-> <<>>,
   practiceProblems |-> <<[q |-> "Error", s |-> message]>>,
   videoTutorials |-> <<>>]

\* the object returned by the catch block
DegradedNode(skillName, message) ==
  [name |-> skillName,
   description |-> <<"Error generating data for", skillName>>,
   children |-> <<>>,
   practiceProblems |-> <<[q |-> "Error", s |-> message]>>,
   videoTutorials |-> <<>>]

(***************************************************************************)
(* State                                                                   *)
(*   cache     skill_data/: key -> stored node                             *)
(*   frames    the invocations of generateSkillTree_Gemini in progress,    *)
(*             each with what it has read, received and computed so far;   *)
(*             path <<c>> is the call made for client c, Append(p, i) the  *)
(*             build of the i-th child made by the invocation at p         *)
(*   issued    number of top-level calls made so far                       *)
(*   anomalies number of model responses so far that threw, did not parse  *)
(*             or carried no content                                       *)
(*   contentShort  the keys for which generateSkillContent_Gemini has      *)
(*             returned a missing or empty list                            *)
(*   stats     per client, the model calls and child builds made since     *)
(*             its current top-level call began                            *)
(*   last      the last value returned by a top-level call, with what the  *)
(*             call was asked and what it did                              *)
(*   previous  the call before it: what was asked, how it was served, and  *)
(*             the name and content it returned                            *)
(***************************************************************************)
VARIABLES cache, frames, issued, anomalies, contentShort, stats, last, previous

vars == <<cache, frames, issued, anomalies, contentShort, stats, last, previous>>

ModelCallPcs == {"awaitTree", "awaitContentMiss", "awaitContentHit"}

FrameAt(p) == CHOOSE f \in frames : f.path = p

IsRunning(p) == \E f \in frames : f.path = p

Returned(p) == \E f \in frames : f.path = p /\ f.pc = "returned"

KeyOf(f) == sanitizeTopicName(f.skillName)

NoStats == [tree |-> 0, content |-> 0, builds |-> 0]

\* the calls made by a set of invocations that have just run to their first await
Count(S) ==
  [tree |-> Cardinality({f \in S : f.pc = "awaitTree"}),
   content |-> Cardinality({f \in S : f.pc = "awaitContentHit"}),
   builds |-> Cardinality({f \in S : Len(f.path) > 1})]

Add(a, b) ==
  [tree |-> a.tree + b.tree, content |-> a.content + b.content,
   builds |-> a.builds + b.builds]

(***************************************************************************)
(* generateSkillTree_Gemini from its entry to its first await.  This part  *)
(* only reads the cache.  On a hit whose children are stubs every child    *)
(* build is started at once by children.map(async ...).                    *)
(***************************************************************************)
RECURSIVE Start(_, _, _, _, _, _)
RECURSIVE Hydrate(_, _)

Start(path, skillName, ancestors, depth, maxDepth, files) ==
  LET key == sanitizeTopicName(skillName)
      miss == [path |-> path, pc |-> "awaitTree", skillName |-> skillName,
               ancestors |-> ancestors, depth |-> depth, maxDepth |-> maxDepth,
               data |-> NoFields, raw |-> <<>>, stubs |-> <<>>, newChildren |-> <<>>,
               error |-> "", origin |-> "miss", childOrigins |-> <<>>,
               keysAtStart |-> DOMAIN files, keysAtFilter |-> {},
               contentOutcome |-> "", content |-> NoFields]
  IN IF key \notin DOMAIN files
     THEN {miss}
     ELSE LET existingData == files[key]
              hit == [miss EXCEPT !.origin = "hit", !.data = existingData]
          IN IF NeedsContent(existingData)
             THEN {[hit EXCEPT !.pc = "awaitContentHit"]}
             ELSE Hydrate(hit, files)

\* the CACHE HYDRATION FIX block and the return of the hit path
Hydrate(f, files) ==
  IF ShouldHydrate(f.depth, f.maxDepth, f.data)
  THEN {[f EXCEPT !.pc = "awaitAll", !.stubs = f.data.children]}
         \cup UNION { Start(Append(f.path, i), f.data.children[i].name,
                            Append(f.ancestors, f.data.name),
                            f.depth + 1, f.maxDepth, files) :
                      i \in 1..Len(f.data.children) }
  ELSE {[f EXCEPT !.pc = "returned", !.data = MarkChildren(f.data)]}

\* (variant: the node is written before its stubs are marked collapsed)
Synthesized_writtenUnmarked(f, data, files) ==
  LET filtered == FilterTruncate(data, f.ancestors, files)
      g == [f EXCEPT !.raw = IF HasChildren(data) THEN data.children ELSE <<>>,
                     !.keysAtFilter = DOMAIN files]
  IN IF ShouldPregenerate(f.depth, f.maxDepth, filtered)
     THEN [frames |-> {[g EXCEPT !.pc = "awaitChild", !.data = filtered,
                                 !.stubs = filtered.children]}
                        \cup Start(Append(f.path, 1), filtered.children[1].name,
                                   Append(f.ancestors, filtered.name),
                                   f.depth + 1, f.maxDepth, files),
           files |-> files]
     ELSE [frames |-> {[g EXCEPT !.pc = "returned", !.data = MarkChildren(filtered),
                                 !.stubs = IF HasChildren(filtered)
                                           THEN filtered.children ELSE <<>>]},
           files |-> writeFileSync(files, KeyOf(f), filtered)]

\* the miss path after the content check: filter, truncate, then either the
\* first child build of the pre-generation loop or the write and return
Synthesized(f, data, files) ==
  LET filtered == FilterTruncate(data, f.ancestors, files)
      g == [f EXCEPT !.raw = IF HasChildren(data) THEN data.children ELSE <<>>,
                     !.keysAtFilter = DOMAIN files]
  IN IF ShouldPregenerate(f.depth, f.maxDepth, filtered)
     THEN [frames |-> {[g EXCEPT !.pc = "awaitChild", !.data = filtered,
                                 !.stubs = filtered.children]}
                        \cup Start(Append(f.path, 1), filtered.children[1].name,
                                   Append(f.ancestors, filtered.name),
                                   f.depth + 1, f.maxDepth, files),
           files |-> files]
     ELSE LET marked == MarkChildren(filtered)
          IN [frames |-> {[g EXCEPT !.pc = "returned", !.data = marked,
                                    !.stubs = IF HasChildren(filtered)
                                              THEN filtered.children ELSE <<>>]},
              files |-> writeFileSync(files, KeyOf(f), marked)]

\* (variant: a failed child build aborts the loop and degrades the parent)
Pregenerated_abort(f, child, files) ==
  LET i == Len(f.newChildren) + 1
      newChildren == Append(f.newChildren, Collapse(child.data))
      g == [f EXCEPT !.newChildren = newChildren,
                     !.childOrigins = Append(@, child.origin)]
  IN IF child.origin = "degraded"
     THEN [frames |-> {[g EXCEPT !.pc = "returned", !.error = child.error,
                                 !.data = DegradedNode(f.skillName, child.error)]},
           files |-> files]
     ELSE IF i < Len(f.data.children)
     THEN [frames |-> {g} \cup Start(Append(f.path, i + 1), f.data.children[i + 1].name,
                                     Append(f.ancestors, f.data.name),
                                     f.depth + 1, f.maxDepth, files),
           files |-> files]
     ELSE LET data == SetField(f.data, "children", newChildren)
          IN [frames |-> {[g EXCEPT !.pc = "returned", !.data = data]},
              files |-> writeFileSync(files, KeyOf(f), data)]

\* one turn of the pre-generation loop: the child build that was awaited has
\* returned; either the next child build is started or the node is written
Pregenerated(f, child, files) ==
  LET i == Len(f.newChildren) + 1
      newChildren == Append(f.newChildren, Collapse(child.data))
      g == [f EXCEPT !.newChildren = newChildren,
                     !.childOrigins = Append(@, child.origin)]
  IN IF i < Len(f.data.children)
     THEN [frames |-> {g} \cup Start(Append(f.path, i + 1), f.data.children[i + 1].name,
                                     Append(f.ancestors, f.data.name),
                                     f.depth + 1, f.maxDepth, files),
           files |-> files]
     ELSE LET data == SetField(f.data, "children", newChildren)
          IN [frames |-> {[g EXCEPT !.pc = "returned", !.data = data]},
              files |-> writeFileSync(files, KeyOf(f), data)]

(***************************************************************************)
(* Pending promise continuations                                           *)
(***************************************************************************)
ChildDone(f) ==
  /\ f.pc = "awaitChild"
  /\ Returned(Append(f.path, Len(f.newChildren) + 1))

AllDone(f) ==
  /\ f.pc = "awaitAll"
  /\ \A i \in 1..Len(f.stubs) : Returned(Append(f.path, i))

RootDone(f) == f.pc = "returned" /\ Len(f.path) = 1

MicroPending == \E f \in frames : ChildDone(f) \/ AllDone(f) \/ RootDone(f)

(***************************************************************************)
(* Initial state: the server has started, skill_data/ is empty             *)
(***************************************************************************)
NoResponse ==
  [sent |-> FALSE, client |-> 0, topic |-> <<>>, ancestors |-> <<>>, maxDepth |-> 0,
   node |-> NoFields, origin |-> "", childOrigins |-> <<>>, error |-> "",
   calls |-> NoStats]

\* what is kept of a response once the next one has been sent
Summary(response) ==
  [sent |-> response.sent, topic |-> response.topic, ancestors |-> response.ancestors,
   maxDepth |-> response.maxDepth, origin |-> response.origin,
   node |-> [k \in DOMAIN response.node \cap {"name", "practiceProblems", "videoTutorials"} |->
               response.node[k]]]

Init ==
  /\ cache = [k \in {} |-> NoFields]
  /\ frames = {}
  /\ issued = 0
  /\ anomalies = 0
  /\ contentShort = {}
  /\ stats = [c \in Clients |-> NoStats]
  /\ last = NoResponse
  /\ previous = Summary(NoResponse)

(***************************************************************************)
(* Macrotasks                                                              *)
(***************************************************************************)
\* a top-level call generateSkillTree_Gemini(topic, ancestors, 0, maxDepth);
\* the POST /get-skills handler makes it with maxDepth = 1
Call(c, topic, ancestors, maxDepth) ==
  /\ ~MicroPending
  /\ ~IsRunning(<<c>>)
  /\ LET S == Start(<<c>>, topic, ancestors, 0, maxDepth, cache)
     IN /\ frames' = frames \cup S
        /\ stats' = [stats EXCEPT ![c] = Count(S)]
  /\ issued' = issued + 1
  /\ UNCHANGED <<cache, anomalies, contentShort, last, previous>>

\* (variant: a tree call that failed is made once more before the node degrades)
TreeResponse_retry(f, response) ==
  /\ f.pc = "awaitTree"
  /\ ~MicroPending
  /\ anomalies' = IF IsAnomaly(response) THEN anomalies + 1 ELSE anomalies
  /\ LET parsed == CallAndParse(response)
         c == f.path[1]
     IN IF ~parsed.ok /\ f.error = ""
        THEN /\ frames' = (frames \ {f}) \cup {[f EXCEPT !.error = parsed.message]}
             /\ stats' = [stats EXCEPT ![c] = Add(@, [NoStats EXCEPT !.tree = 1])]
             /\ UNCHANGED cache
        ELSE IF ~parsed.ok
        THEN /\ frames' = (frames \ {f}) \cup
                  {[f EXCEPT !.pc = "returned", !.error = parsed.message,
                             !.origin = "degraded",
                             !.data = DegradedNode(f.skillName, parsed.message)]}
             /\ UNCHANGED <<cache, stats>>
        ELSE IF NeedsContent(parsed.value)
        THEN /\ frames' = (frames \ {f}) \cup
                  {[f EXCEPT !.pc = "awaitContentMiss", !.data = parsed.value, !.error = ""]}
             /\ stats' = [stats EXCEPT ![c] = Add(@, [NoStats EXCEPT !.content = 1])]
             /\ UNCHANGED cache
        ELSE LET r == Synthesized([f EXCEPT !.error = ""], parsed.value, cache)
             IN /\ frames' = (frames \ {f}) \cup r.frames
                /\ cache' = r.files
                /\ stats' = [stats EXCEPT ![c] = Add(@, Count(r.frames \ {g \in r.frames : g.path = f.path}))]
  /\ UNCHANGED <<issued, contentShort, last, previous>>

\* the await of genAI.models.generateContent in generateSkillTree_Gemini resumes
TreeResponse(f, response) ==
  /\ f.pc = "awaitTree"
  /\ ~MicroPending
  /\ anomalies' = IF IsAnomaly(response) THEN anomalies + 1 ELSE anomalies
  /\ LET parsed == CallAndParse(response)
         c == f.path[1]
     IN IF ~parsed.ok
        THEN /\ frames' = (frames \ {f}) \cup
                  {[f EXCEPT !.pc = "returned", !.error = parsed.message,
                             !.origin = "degraded",
                             !.data = DegradedNode(f.skillName, parsed.message)]}
             /\ UNCHANGED <<cache, stats>>
        ELSE IF NeedsContent(parsed.value)
        THEN /\ frames' = (frames \ {f}) \cup
                  {[f EXCEPT !.pc = "awaitContentMiss", !.data = parsed.value]}
             /\ stats' = [stats EXCEPT ![c] = Add(@, [NoStats EXCEPT !.content = 1])]
             /\ UNCHANGED cache
        ELSE LET r == Synthesized(f, parsed.value, cache)
             IN /\ frames' = (frames \ {f}) \cup r.frames
                /\ cache' = r.files
                /\ stats' = [stats EXCEPT ![c] = Add(@, Count(r.frames \ {g \in r.frames : g.path = f.path}))]
  /\ UNCHANGED <<issued, contentShort, last, previous>>

\* the await of generateSkillContent_Gemini resumes, on either path
ContentResponse(f, response) ==
  /\ f.pc \in {"awaitContentMiss", "awaitContentHit"}
  /\ ~MicroPending
  /\ anomalies' = IF IsContentAnomaly(response) THEN anomalies + 1 ELSE anomalies
  /\ LET content == generateSkillContent_Gemini(response)
         merged == Spread(f.data, content)
         c == f.path[1]
         resumed == [f EXCEPT !.content = content, !.contentOutcome = Outcome(response)]
     IN IF f.pc = "awaitContentMiss"
        THEN LET r == Synthesized(resumed, merged, cache)
             IN /\ frames' = (frames \ {f}) \cup r.frames
                /\ cache' = r.files
                /\ stats' = [stats EXCEPT ![c] = Add(@, Count(r.frames \ {g \in r.frames : g.path = f.path}))]
        ELSE LET files == writeFileSync(cache, KeyOf(f), merged)
                 S == Hydrate([resumed EXCEPT !.data = merged], files)
             IN /\ frames' = (frames \ {f}) \cup S
                /\ cache' = files
                /\ stats' = [stats EXCEPT ![c] = Add(@, Count(S \ {g \in S : g.path = f.path}))]
  /\ contentShort' = IF NeedsContent(generateSkillContent_Gemini(response))
                     THEN contentShort \cup {KeyOf(f)} ELSE contentShort
  /\ UNCHANGED <<issued, last, previous>>

(***************************************************************************)
(* Promise continuations                                                   *)
(***************************************************************************)
\* the pre-generation loop resumes after "await generateSkillTree_Gemini"
ChildReturned(f) ==
  /\ ChildDone(f)
  /\ LET child == FrameAt(Append(f.path, Len(f.newChildren) + 1))
         r == Pregenerated(f, child, cache)
     IN /\ frames' = (frames \ {f, child}) \cup r.frames
        /\ cache' = r.files
        /\ stats' = [stats EXCEPT ![f.path[1]] =
                        Add(@, Count({g \in r.frames : g.path # f.path}))]
  /\ UNCHANGED <<issued, anomalies, contentShort, last, previous>>

\* (variant: the results are collected last child first)
AllReturned_reversed(f) ==
  /\ AllDone(f)
  /\ LET n == Len(f.stubs)
         kids == {FrameAt(Append(f.path, i)) : i \in 1..n}
         results == [i \in 1..n |-> Collapse(FrameAt(Append(f.path, n + 1 - i)).data)]
         data == SetField(f.data, "children", results)
     IN /\ frames' = (frames \ ({f} \cup kids)) \cup
              {[f EXCEPT !.pc = "returned", !.data = MarkChildren(data),
                         !.childOrigins = [i \in 1..n |-> FrameAt(Append(f.path, i)).origin]]}
        /\ cache' = writeFileSync(cache, KeyOf(f), data)
  /\ UNCHANGED <<issued, anomalies, contentShort, stats, last, previous>>

\* "await Promise.all(childPromises)" resumes on the hit path
AllReturned(f) ==
  /\ AllDone(f)
  /\ LET n == Len(f.stubs)
         kids == {FrameAt(Append(f.path, i)) : i \in 1..n}
         results == [i \in 1..n |-> Collapse(FrameAt(Append(f.path, i)).data)]
         data == SetField(f.data, "children", results)
     IN /\ frames' = (frames \ ({f} \cup kids)) \cup
              {[f EXCEPT !.pc = "returned", !.data = MarkChildren(data),
                         !.childOrigins = [i \in 1..n |-> FrameAt(Append(f.path, i)).origin]]}
        /\ cache' = writeFileSync(cache, KeyOf(f), data)
  /\ UNCHANGED <<issued, anomalies, contentShort, stats, last, previous>>

\* the top-level call returns to its caller (res.json in the handler)
Respond(f) ==
  /\ RootDone(f)
  /\ frames' = frames \ {f}
  /\ last' = [sent |-> TRUE, client |-> f.path[1], topic |-> f.skillName,
              ancestors |-> f.ancestors, maxDepth |-> f.maxDepth, node |-> f.data,
              origin |-> f.origin, childOrigins |-> f.childOrigins,
              error |-> f.error, calls |-> stats[f.path[1]]]
  /\ previous' = Summary(last)
  /\ UNCHANGED <<cache, issued, anomalies, contentShort, stats>>

(***************************************************************************)
(* Specifications                                                          *)
(***************************************************************************)
\* one caller: a top-level call is made only after the previous one returned
SequentialCall ==
  /\ frames = {}
  /\ issued < MaxRequests
  /\ \E topic \in Topics, ancestors \in AncestorChoices, maxDepth \in DepthChoices :
       Call(1, topic, ancestors, maxDepth)

\* the server accepts a request while another one is suspended at an await
ConcurrentCall ==
  /\ issued < MaxConcurrentRequests
  /\ \E c \in Clients, topic \in Topics, ancestors \in AncestorChoices :
       Call(c, topic, ancestors, EndpointMaxDepth)

\* the external model answers a call that is in flight
ModelAnswers(budget) ==
  \/ \E f \in frames : \E response \in TreeResponses(f.skillName) :
       /\ IsAnomaly(response) => anomalies < budget
       /\ TreeResponse(f, response)
  \/ \E f \in frames : \E response \in ContentResponses :
       /\ IsContentAnomaly(response) => anomalies < budget
       /\ ContentResponse(f, response)

Continuations ==
  \/ \E f \in frames : ChildReturned(f)
  \/ \E f \in frames : AllReturned(f)
  \/ \E f \in frames : Respond(f)

Next == SequentialCall \/ ModelAnswers(MaxAnomalies) \/ Continuations

NextConcurrent ==
  ConcurrentCall \/ ModelAnswers(MaxConcurrentAnomalies) \/ Continuations

Spec == Init /\ [][Next]_vars

SpecConcurrent == Init /\ [][NextConcurrent]_vars

(***************************************************************************)
(* One build over a skill_data/ directory left by an earlier run of the    *)
(* server (the directory is created only when it does not exist).  The     *)
(* topic is any string over Alphabet and the model may answer with up to   *)
(* MaxRawChildren children.                                                *)
(***************************************************************************)
Alphabet == {"a", "B", "1", "-", "_", " "}

Strings(n) == UNION {[1..k -> Alphabet] : k \in 1..n}

\* the i-th child the model names: i letters, upper case when i is even
ChildName(i) == [j \in 1..i |-> IF i % 2 = 0 THEN "B" ELSE "b"]

LongChildLists == {[i \in 1..n |-> Stub(ChildName(i))] : n \in 0..MaxRawChildren}

LongTreeResponses(skillName) ==
  {Threw(ErrCall), Text(<<Prose>>)}
    \cup {Text(<<Json(Spread([name |-> skillName, children |-> kids], content))>>) :
            kids \in LongChildLists, content \in TreeContents}

\* a leaf entry as a build stores it
StoredLeaf(name) ==
  [name |-> name, children |-> <<>>,
   practiceProblems |-> TreeProblems, videoTutorials |-> TreeVideos]

SeedNames == {ChildName(1), ChildName(4)}

SeededCaches ==
  {[k \in {sanitizeTopicName(n) : n \in S} |->
      StoredLeaf(CHOOSE n \in S : sanitizeTopicName(n) = k)] : S \in SUBSET SeedNames}

InitSeeded ==
  /\ cache \in SeededCaches
  /\ frames = {}
  /\ issued = 0
  /\ anomalies = 0
  /\ contentShort = {}
  /\ stats = [c \in Clients |-> NoStats]
  /\ last = NoResponse
  /\ previous = Summary(NoResponse)

SingleCall ==
  /\ issued = 0
  /\ \E topic \in Strings(MaxTopicLen), ancestors \in {<<>>, <<TopicA>>} :
       Call(1, topic, ancestors, DefaultMaxDepth)

NextSynthesis ==
  \/ SingleCall
  \/ \E f \in frames : \E response \in LongTreeResponses(f.skillName) :
       TreeResponse(f, response)
  \/ \E f \in frames : \E response \in ContentResponses : ContentResponse(f, response)
  \/ \E f \in frames : Respond(f)

SpecSynthesis == InitSeeded /\ [][NextSynthesis]_vars

(***************************************************************************)
(* Deep builds: one caller, maxDepth up to MaxDeepDepth, and a model that  *)
(* names children after the node itself or after one of its ancestors.     *)
(* Every model call is answered (the responses are finite) and the event   *)
(* loop runs every continuation that is ready.                             *)
(***************************************************************************)
DeepChildLists ==
  { <<>>,
    <<Stub(TopicBUpper), Stub(TopicA)>> }

DeepTreeResponses(skillName) ==
  {Threw(ErrCall)}
    \cup {Text(<<Json(Spread([name |-> skillName, children |-> kids], content))>>) :
            kids \in DeepChildLists, content \in TreeContents}

DeepContentResponses ==
  { Threw(ErrCall),
    Text(<<Json([practiceProblems |-> ContentProblems, videoTutorials |-> ContentVideos])>>) }

DeepCall ==
  /\ frames = {}
  /\ issued < MaxDeepRequests
  /\ \E topic \in Topics, ancestors \in AncestorChoices, maxDepth \in 0..MaxDeepDepth :
       Call(1, topic, ancestors, maxDepth)

DeepAnswers ==
  \/ \E f \in frames : \E response \in DeepTreeResponses(f.skillName) :
       /\ IsAnomaly(response) => anomalies < MaxDeepAnomalies
       /\ TreeResponse(f, response)
  \/ \E f \in frames : \E response \in DeepContentResponses :
       /\ IsContentAnomaly(response) => anomalies < MaxDeepAnomalies
       /\ ContentResponse(f, response)

NextDeep == DeepCall \/ DeepAnswers \/ Continuations

\* a model call is in flight or a continuation is ready: the states in which
\* DeepAnswers \/ Continuations is enabled
Advancing == MicroPending \/ \E f \in frames : f.pc \in ModelCallPcs

\* weak fairness of DeepAnswers \/ Continuations, its enabling condition
\* written out as Advancing
SpecDeep ==
  /\ Init /\ [][NextDeep]_vars
  /\ []<>(~Advancing) \/ []<><<DeepAnswers \/ Continuations>>_vars

(***************************************************************************)
(* Vocabulary of the properties                                            *)
(***************************************************************************)
FieldOf(node, k) == IF k \in DOMAIN node THEN <<node[k]>> ELSE <<>>

Filled(node) ==
  /\ FieldOf(node, "practiceProblems") \notin {<<>>, <<<<>>>>}
  /\ FieldOf(node, "videoTutorials") \notin {<<>>, <<<<>>>>}

ChildrenOf(node) == IF "children" \in DOMAIN node THEN node.children ELSE <<>>

NameOnly(node) == "name" \in DOMAIN node /\ DOMAIN node \subseteq {"name", "collapsed"}

IsCollapsed(node) == FieldOf(node, "collapsed") = <<TRUE>>

DegradedShape(node) ==
  /\ FieldOf(node, "children") = <<<<>>>>
  /\ FieldOf(node, "videoTutorials") = <<<<>>>>
  /\ "practiceProblems" \in DOMAIN node
  /\ Len(node.practiceProblems) = 1
  /\ node.practiceProblems[1].q = "Error"

DegradedFor(node, topic, message) ==
  /\ DegradedShape(node)
  /\ FieldOf(node, "name") = <<topic>>
  /\ node.practiceProblems[1].s = message

InFlight(c) == {f \in frames : f.path[1] = c /\ f.pc \in ModelCallPcs}

Idle == frames = {}

RepeatedRootCall ==
  /\ last.sent /\ previous.sent
  /\ last.topic = previous.topic
  /\ last.ancestors = <<>> /\ previous.ancestors = <<>>
  /\ last.maxDepth = 0 /\ previous.maxDepth = 0

SameNameAndContent(m, n) ==
  /\ FieldOf(m, "name") = FieldOf(n, "name")
  /\ FieldOf(m, "practiceProblems") = FieldOf(n, "practiceProblems")
  /\ FieldOf(m, "videoTutorials") = FieldOf(n, "videoTutorials")

ServedFromCache(response) ==
  response.calls.tree = 0 /\ response.calls.content = 0

(***************************************************************************)
(* C1  Idempotence at depth 0                                              *)
(***************************************************************************)
\* C1 as stated: whenever build(topic, [], 0, 0) is called twice in sequence,
\* the second call returns the same name, practice items and references as
\* the first and makes no call to the external model.
C1_IdempotentAlways ==
  RepeatedRootCall =>
    SameNameAndContent(last.node, previous.node) /\ ServedFromCache(last)

\* C1 amended: when the first of two successive calls build(topic, [], 0, 0)
\* returned a node whose practice items and references are both non-empty,
\* the second call returns the same name, practice items and references and
\* makes no call to the external model.
C1_IdempotentAfterSuccess ==
  RepeatedRootCall /\ Filled(previous.node) =>
    SameNameAndContent(last.node, previous.node) /\ ServedFromCache(last)

C1_Witness ==
  RepeatedRootCall /\ Filled(previous.node) /\ previous.origin = "miss"

(***************************************************************************)
(* C2  Single-flight under concurrency                                     *)
(***************************************************************************)
\* C2: two top-level builds that run concurrently for the same uncached key
\* never both have a tree-synthesis call to the external model in flight.
C2_SingleFlight ==
  \A f, g \in frames :
    /\ f.path # g.path
    /\ Len(f.path) = 1 /\ Len(g.path) = 1
    /\ f.pc = "awaitTree" /\ g.pc = "awaitTree"
    => KeyOf(f) # KeyOf(g)

(***************************************************************************)
(* C3  One model call at a time within one top-level build                 *)
(***************************************************************************)
\* C3: within one top-level build at most one call to the external model is
\* in flight, and a child build exists only when every earlier sibling's
\* build has returned.
C3_Sequential ==
  \A c \in Clients :
    /\ Cardinality(InFlight(c)) <= 1
    /\ \A f, g \in frames :
         /\ Len(f.path) > 1 /\ Len(f.path) = Len(g.path)
         /\ SubSeq(f.path, 1, Len(f.path) - 1) = SubSeq(g.path, 1, Len(g.path) - 1)
         /\ f.path[Len(f.path)] < g.path[Len(g.path)]
         => f.pc = "returned"

(***************************************************************************)
(* C4  maxDepth = 0                                                        *)
(***************************************************************************)
\* C4 as stated: a call with maxDepth = 0 returns a node whose children are
\* all stubs (name only) and makes no child build.
C4_ChildrenAlwaysStubs ==
  last.sent /\ last.maxDepth = 0 =>
    /\ \A i \in DOMAIN ChildrenOf(last.node) : NameOnly(ChildrenOf(last.node)[i])
    /\ last.calls.builds = 0

\* C4 amended: a call with maxDepth = 0 makes no child build and marks every
\* child of the returned node collapsed; on a cache miss the children are
\* all stubs; on a cache hit the children are those of the cache entry, so
\* they are stubs only when the entry holds stubs.
C4_NoExpansionAtDepthZero ==
  last.sent /\ last.maxDepth = 0 =>
    /\ last.calls.builds = 0
    /\ \A i \in DOMAIN ChildrenOf(last.node) : IsCollapsed(ChildrenOf(last.node)[i])
    /\ last.origin = "miss" =>
         \A i \in DOMAIN ChildrenOf(last.node) : NameOnly(ChildrenOf(last.node)[i])
    /\ last.origin = "hit" /\ Idle =>
         /\ sanitizeTopicName(last.topic) \in DOMAIN cache
         /\ \A i \in DOMAIN ChildrenOf(last.node) :
              ChildrenOf(last.node)[i] =
                [k \in DOMAIN ChildrenOf(cache[sanitizeTopicName(last.topic)])[i] \cup {"collapsed"} |->
                   IF k = "collapsed" THEN TRUE
                   ELSE ChildrenOf(cache[sanitizeTopicName(last.topic)])[i][k]]
         /\ Len(ChildrenOf(last.node)) = Len(ChildrenOf(cache[sanitizeTopicName(last.topic)]))

C4_Witness ==
  /\ last.sent /\ last.maxDepth = 0 /\ last.origin = "hit" /\ Idle
  /\ \E i \in DOMAIN ChildrenOf(last.node) : Filled(ChildrenOf(last.node)[i])

(***************************************************************************)
(* C5  maxDepth = 1: content of the direct children                        *)
(***************************************************************************)
\* C5 as stated: every direct child of the node returned for maxDepth = 1
\* has non-empty practice items and references, or the degraded shape.
C5_ChildrenFilledOrDegraded ==
  last.sent /\ last.maxDepth = 1 =>
    \A i \in DOMAIN ChildrenOf(last.node) :
      Filled(ChildrenOf(last.node)[i]) \/ DegradedShape(ChildrenOf(last.node)[i])

\* C5 amended: every direct child of the node returned for maxDepth = 1
\* has practice items and references that are both non-empty, or has the
\* degraded shape, or is a child for whose key the content synthesizer has
\* answered with a missing or empty list (its fail-soft result, or what the
\* model's response parsed to).
C5_ChildrenFilledDegradedOrShort ==
  last.sent /\ last.maxDepth = 1 =>
    \A i \in DOMAIN ChildrenOf(last.node) :
      LET child == ChildrenOf(last.node)[i]
      IN \/ Filled(child)
         \/ DegradedShape(child)
         \/ sanitizeTopicName(child.name) \in contentShort

C5_Witness ==
  /\ last.sent /\ last.maxDepth = 1
  /\ \E i \in DOMAIN ChildrenOf(last.node) :
       LET child == ChildrenOf(last.node)[i]
       IN /\ ~Filled(child) /\ ~DegradedShape(child)
          /\ i \in DOMAIN last.childOrigins /\ last.childOrigins[i] = "miss"

(***************************************************************************)
(* C6  maxDepth = 1: collapsed children, stub grandchildren                *)
(***************************************************************************)
\* C6 as stated: for maxDepth = 1 every direct child of the result is
\* collapsed and every grandchild is a stub marked collapsed.
C6_GrandchildrenAlwaysStubs ==
  last.sent /\ last.maxDepth = 1 =>
    \A i \in DOMAIN ChildrenOf(last.node) :
      LET child == ChildrenOf(last.node)[i]
      IN /\ IsCollapsed(child)
         /\ \A j \in DOMAIN ChildrenOf(child) :
              NameOnly(ChildrenOf(child)[j]) /\ IsCollapsed(ChildrenOf(child)[j])

\* C6 amended: for maxDepth = 1 every direct child of the result and every
\* grandchild is marked collapsed; the grandchildren under a child that was
\* synthesized during this call are all stubs, while a child served from a
\* cache entry carries the children of that entry, hydrated or not.
C6_CollapsedAndFreshGrandchildrenStubs ==
  last.sent /\ last.maxDepth = 1 =>
    \A i \in DOMAIN ChildrenOf(last.node) :
      LET child == ChildrenOf(last.node)[i]
      IN /\ IsCollapsed(child)
         /\ \A j \in DOMAIN ChildrenOf(child) : IsCollapsed(ChildrenOf(child)[j])
         /\ i \in DOMAIN last.childOrigins /\ last.childOrigins[i] = "miss" =>
              \A j \in DOMAIN ChildrenOf(child) : NameOnly(ChildrenOf(child)[j])

C6_Witness ==
  /\ last.sent /\ last.maxDepth = 1 /\ last.origin = "hit"
  /\ \E i \in DOMAIN ChildrenOf(last.node) :
       /\ i \in DOMAIN last.childOrigins /\ last.childOrigins[i] = "miss"
       /\ ChildrenOf(ChildrenOf(last.node)[i]) # <<>>

(***************************************************************************)
(* C7  Degraded node                                                       *)
(***************************************************************************)
\* C7: a build whose tree synthesis (call or parse) failed has returned, and
\* what it returns is the node named as the topic asked for, with no
\* children, one practice item (question "Error", solution the error
\* message) and no references; the top-level caller receives it as a value.
C7_DegradedNode ==
  /\ \A f \in frames :
       f.error # "" => f.pc = "returned" /\ DegradedFor(f.data, f.skillName, f.error)
  /\ last.sent /\ last.error # "" => DegradedFor(last.node, last.topic, last.error)
  /\ \A f \in frames : f.pc = "returned" /\ f.origin = "degraded" => f.error # ""

C7_Witness ==
  \E f \in frames :
    /\ f.pc = "returned" /\ f.error = ErrParse
    /\ f.skillName = TopicBUpper /\ KeyOf(f) \notin f.keysAtStart

(***************************************************************************)
(* C8  A degraded node is never persisted                                  *)
(***************************************************************************)
\* C8: at the step in which a build returns a degraded node, no cache entry
\* exists for its key.
C8_NoEntryAfterFailure ==
  [][\A f \in frames' :
       f \notin frames /\ f.pc = "returned" /\ f.error # "" =>
         KeyOf(f) \notin DOMAIN cache']_vars

(***************************************************************************)
(* C9  Failure isolation                                                   *)
(***************************************************************************)
\* C9: a cache-miss build that pre-generates its children returns a node
\* that is not degraded, has one child per stub in the order of the stubs,
\* holds a degraded node named as the stub exactly at the positions whose
\* build failed, and is stored at its key when it returns.
C9_FailureIsolation ==
  \A f \in frames :
    f.pc = "returned" /\ f.origin = "miss" /\ f.depth < f.maxDepth /\ f.stubs # <<>> =>
      /\ f.error = "" /\ ~DegradedShape(f.data)
      /\ Len(ChildrenOf(f.data)) = Len(f.stubs)
      /\ Len(f.childOrigins) = Len(f.stubs)
      /\ \A i \in DOMAIN f.stubs :
           /\ f.childOrigins[i] = "degraded" =>
                \E message \in {ErrCall, ErrParse} :
                  DegradedFor(f.data.children[i], f.stubs[i].name, message)
           /\ f.childOrigins[i] # "degraded" => ~DegradedShape(f.data.children[i])
      /\ KeyOf(f) \in DOMAIN cache /\ cache[KeyOf(f)] = f.data

C9_Witness ==
  \E f \in frames :
    /\ f.pc = "returned" /\ f.origin = "miss" /\ f.depth < f.maxDepth
    /\ f.childOrigins = <<"degraded", "miss">>

(***************************************************************************)
(* C10  Global dedup                                                       *)
(***************************************************************************)
\* C10: after the filtering of a freshly synthesized node, no child of the
\* raw model result whose normalized name had a cache entry before the
\* synthesis began is among the node's children, before or after they are
\* built.
C10_Dedup ==
  \A f \in frames :
    f.origin = "miss" /\ f.pc \in {"awaitChild", "returned"} =>
      /\ \A i \in DOMAIN f.stubs : sanitizeTopicName(f.stubs[i].name) \notin f.keysAtStart
      /\ \A i \in DOMAIN ChildrenOf(f.data) :
           sanitizeTopicName(ChildrenOf(f.data)[i].name) \notin f.keysAtStart
      /\ \A i \in DOMAIN f.stubs : \E j \in DOMAIN f.raw : f.raw[j] = f.stubs[i]

C10_Witness ==
  \E f \in frames :
    /\ f.origin = "miss" /\ f.pc = "returned"
    /\ f.raw # <<>> /\ f.stubs = <<>>
    /\ \A i \in DOMAIN f.raw : sanitizeTopicName(f.raw[i].name) \in f.keysAtStart

(***************************************************************************)
(* C11  Truncation                                                         *)
(***************************************************************************)
Survivors(raw, keys) ==
  LET Fresh(child) == sanitizeTopicName(child.name) \notin keys
  IN SelectSeq(raw, Fresh)

FirstN(list, n) == SubSeq(list, 1, IF Len(list) < n THEN Len(list) ELSE n)

\* C11: a build that has synthesized a node on a cache miss keeps as the
\* node's children exactly the first N of the raw children whose key had no
\* cache entry when the children were filtered, in their order, N being 6
\* without ancestors and 4 with; when
\* the children are not pre-generated they are these stubs themselves.
C11_Truncation ==
  \A f \in frames :
    f.origin = "miss" /\ f.pc = "returned" =>
      LET kept == FirstN(Survivors(f.raw, f.keysAtFilter),
                         IF f.ancestors = <<>> THEN 6 ELSE 4)
      IN /\ f.stubs = kept
         /\ Len(ChildrenOf(f.data)) = Len(kept)
         /\ f.depth >= f.maxDepth =>
              \A i \in DOMAIN kept : ChildrenOf(f.data)[i] = Collapse(kept[i])

C11_Witness ==
  \E f \in frames :
    /\ f.origin = "miss" /\ f.pc = "returned" /\ f.ancestors # <<>>
    /\ Len(f.raw) = 8 /\ Len(Survivors(f.raw, f.keysAtFilter)) = 6
    /\ Len(f.stubs) = 4 /\ f.stubs[4].name = ChildName(6)

(***************************************************************************)
(* C12  Content pair                                                       *)
(***************************************************************************)
RECURSIVE NodesIn(_)
\* a node and every node nested in its children list
NodesIn(node) ==
  {node} \cup UNION {NodesIn(ChildrenOf(node)[i]) : i \in DOMAIN ChildrenOf(node)}

Unfilled(node) ==
  /\ FieldOf(node, "practiceProblems") \in {<<>>, <<<<>>>>}
  /\ FieldOf(node, "videoTutorials") \in {<<>>, <<<<>>>>}

\* C12: every node held in the cache, at the top of an entry or nested in
\* its children, has practice items and references that are both non-empty
\* or both empty (or absent).
C12_ContentPair ==
  \A k \in DOMAIN cache : \A node \in NodesIn(cache[k]) : Filled(node) \/ Unfilled(node)

(***************************************************************************)
(* C13  Persist before return                                              *)
(***************************************************************************)
\* C13: at the step in which a build returns a node that is not degraded,
\* the cache entry at the build's key is the node returned, collapsed
\* flags included.
C13_PersistBeforeReturn ==
  [][\A f \in frames' :
       f \notin frames /\ f.pc = "returned" /\ f.error = "" =>
         KeyOf(f) \in DOMAIN cache' /\ cache'[KeyOf(f)] = f.data]_vars

C13_Witness ==
  \E f \in frames :
    /\ f.pc = "returned" /\ f.error = "" /\ f.origin = "hit"
    /\ Len(f.childOrigins) > 0 /\ "miss" \in {f.childOrigins[i] : i \in DOMAIN f.childOrigins}
    /\ KeyOf(f) \in DOMAIN cache /\ cache[KeyOf(f)] = f.data

(***************************************************************************)
(* C14  The normalizer is idempotent                                       *)
(***************************************************************************)
\* C14: for every topic a build is called with, normalizing the normalized
\* topic gives the normalized topic again; every key of the cache is its
\* own normal form.
C14_NormalizeIdempotent ==
  /\ \A f \in frames :
       sanitizeTopicName(sanitizeTopicName(f.skillName)) = sanitizeTopicName(f.skillName)
  /\ \A k \in DOMAIN cache : sanitizeTopicName(k) = k

C14_Witness ==
  \E f \in frames :
    /\ f.skillName = <<"B", " ">>
    /\ sanitizeTopicName(f.skillName) = <<"b", "_">>
    /\ f.pc = "returned" /\ sanitizeTopicName(f.skillName) \in DOMAIN cache

(***************************************************************************)
(* C15  The content synthesizer is fail-soft                               *)
(***************************************************************************)
\* C15: whatever the external model does with the content call, the
\* content synthesizer returns a value and its caller goes on without an
\* error; when the call threw or its text did not parse, the value is
\* exactly empty practice items and empty references, which the caller
\* merges into its node.
C15_ContentFailSoft ==
  \A f \in frames :
    f.contentOutcome # "" =>
      /\ f.pc \notin {"awaitContentMiss", "awaitContentHit"}
      /\ f.error = "" /\ f.origin # "degraded"
      /\ f.contentOutcome \in {"threw", "unparsable"} =>
           /\ f.content = [practiceProblems |-> <<>>, videoTutorials |-> <<>>]
           /\ FieldOf(f.data, "practiceProblems") = <<<<>>>>
           /\ FieldOf(f.data, "videoTutorials") = <<<<>>>>

C15_Witness ==
  \E f \in frames :
    /\ f.contentOutcome = "unparsable" /\ f.pc = "returned" /\ Len(f.path) > 1
    /\ f.content = [practiceProblems |-> <<>>, videoTutorials |-> <<>>]
    /\ KeyOf(f) \in DOMAIN cache /\ cache[KeyOf(f)] = f.data

(***************************************************************************)
(* C16  Cache entries are never deleted                                    *)
(***************************************************************************)
\* C16: every key that has a cache entry before a step has one after it.
C16_KeysOnlyGrow ==
  [][DOMAIN cache \subseteq DOMAIN cache']_vars

C16_Witness ==
  /\ last.sent /\ previous.sent
  /\ last.topic = previous.topic
  /\ last.origin = "miss" /\ previous.origin = "miss"
  /\ sanitizeTopicName(last.topic) \in DOMAIN cache
  /\ Cardinality(DOMAIN cache) = 2

(***************************************************************************)
(* C17  Lazy hydration on a cache hit                                      *)
(***************************************************************************)
LacksPracticeProblems(node) == "practiceProblems" \notin DOMAIN node

\* a build that is awaiting the builds of all the children of a cache entry:
\* it is a hit above maxDepth whose first child is a stub, and one build per
\* child is under way or done, for the child's name, under the ancestors
\* extended by the node's name, one level deeper, with the same maxDepth
HydratesAsSpecified ==
  \A f \in frames :
    f.pc = "awaitAll" =>
      /\ f.origin = "hit" /\ f.depth < f.maxDepth
      /\ f.stubs # <<>> /\ LacksPracticeProblems(f.stubs[1])
      /\ \A i \in DOMAIN f.stubs :
           \E g \in frames :
             /\ g.path = Append(f.path, i)
             /\ g.skillName = f.stubs[i].name
             /\ g.ancestors = Append(f.ancestors, f.data.name)
             /\ g.depth = f.depth + 1 /\ g.maxDepth = f.maxDepth

\* a hit that has returned after hydrating holds one result per stub and has
\* rewritten its cache entry with them; a hit that has returned without
\* hydrating was at maxDepth, or had no children, or a first child with
\* practice items; child builds under a hit exist only while it hydrates
HydratesExactlyWhenSpecified ==
  /\ \A f \in frames :
       f.pc = "returned" /\ f.origin = "hit" =>
         IF f.childOrigins # <<>>
         THEN /\ Len(ChildrenOf(f.data)) = Len(f.stubs)
              /\ Len(f.childOrigins) = Len(f.stubs)
              /\ Len(f.path) = 1 =>
                   /\ KeyOf(f) \in DOMAIN cache
                   /\ ChildrenOf(cache[KeyOf(f)]) = ChildrenOf(f.data)
         ELSE ~(/\ f.depth < f.maxDepth
                /\ ChildrenOf(f.data) # <<>>
                /\ LacksPracticeProblems(ChildrenOf(f.data)[1]))
  /\ \A f, g \in frames :
       /\ f.origin = "hit" /\ Len(g.path) = Len(f.path) + 1
       /\ SubSeq(g.path, 1, Len(f.path)) = f.path
       => f.pc = "awaitAll"

\* the request being served repeats the last one, which hydrated its node
RepeatsHydratingRequest(f) ==
  /\ Len(f.path) = 1 /\ last.sent
  /\ last.origin = "hit" /\ last.childOrigins # <<>>
  /\ f.skillName = last.topic /\ f.ancestors = last.ancestors
  /\ f.maxDepth = last.maxDepth

WithCollapsed(node) ==
  [k \in DOMAIN node \cup {"collapsed"} |-> IF k = "collapsed" THEN TRUE ELSE node[k]]

\* the build of the i-th stub of f has returned result
IsResultOf(result, f, i) ==
  \E g \in frames :
    /\ g.path = Append(f.path, i) /\ g.pc = "returned"
    /\ g.skillName = f.stubs[i].name
    /\ result = WithCollapsed(g.data)

\* C18: when a build takes the results of its child builds, on the hit path
\* all at once and on the miss path one per turn of the loop, the i-th
\* child of its node becomes the collapsed result of the build made for the
\* i-th stub, and the node returned has exactly one child per stub.
C18_OrderPreserved ==
  [][\A f \in frames : \A h \in frames' :
       h.path = f.path /\ h # f =>
         /\ f.pc = "awaitAll" =>
              /\ h.pc = "returned"
              /\ Len(ChildrenOf(h.data)) = Len(f.stubs)
              /\ \A i \in DOMAIN f.stubs : IsResultOf(h.data.children[i], f, i)
         /\ f.pc = "awaitChild" =>
              /\ Len(h.newChildren) = Len(f.newChildren) + 1
              /\ SubSeq(h.newChildren, 1, Len(f.newChildren)) = f.newChildren
              /\ IsResultOf(h.newChildren[Len(h.newChildren)], f, Len(h.newChildren))
              /\ h.pc = "returned" =>
                   /\ Len(h.newChildren) = Len(f.stubs)
                   /\ ChildrenOf(h.data) = h.newChildren]_vars

C18_Witness ==
  \E f \in frames :
    /\ f.pc = "returned" /\ f.origin = "hit"
    /\ f.childOrigins = <<"miss", "degraded">>
    /\ ~DegradedShape(f.data.children[1]) /\ DegradedShape(f.data.children[2])

(***************************************************************************)
(* C19  Backfill                                                           *)
(***************************************************************************)
ContentFields == {"practiceProblems", "videoTutorials"}

AwaitsContent(f) == f.pc \in {"awaitContentMiss", "awaitContentHit"}

\* the content synthesizer is being called only for a node that lacks practice
\* items or references, and a build that went on without calling it holds
\* a node that has both
BackfillExactlyWhenShort ==
  \A f \in frames :
    /\ AwaitsContent(f) => ~Filled(f.data)
    /\ f.pc \in {"awaitChild", "awaitAll", "returned"} /\ f.error = ""
         /\ f.contentOutcome = "" => Filled(f.data)

\* h is the build f after the merge of the content it awaited: every field
\* of the node but the two lists is as before (the children as they were
\* before the filter of the miss path), no other field has appeared, and on
\* a hit the node is in the cache
MergedOnlyContent(f, h) ==
  /\ \A k \in DOMAIN f.data \ (ContentFields \cup {"children"}) :
       k \in DOMAIN h.data /\ h.data[k] = f.data[k]
  /\ DOMAIN h.data \ ContentFields \subseteq DOMAIN f.data
  /\ IF f.pc = "awaitContentMiss"
     THEN h.raw = ChildrenOf(f.data)
     ELSE /\ ChildrenOf(h.data) = ChildrenOf(f.data)
          /\ sanitizeTopicName(f.skillName) \in DOMAIN cache'
          /\ cache'[sanitizeTopicName(f.skillName)] = h.data

\* C19: backfill is triggered exactly when practice items or references
\* are missing or empty, and the merge changes only those two fields of the
\* node and, on a hit, writes the merged node to the cache.
C19_Backfill ==
  /\ []BackfillExactlyWhenShort
  /\ [][\A f \in frames : \A h \in frames' :
          AwaitsContent(f) /\ h.path = f.path /\ h # f => MergedOnlyContent(f, h)]_vars

(***************************************************************************)
(* C20  No retry                                                           *)
(***************************************************************************)
\* h is a build in the next state: it waits for the tree synthesizer only
\* from its start, and only when its key was not cached; it waits for the
\* content synthesizer only from its start on a hit, or right after its
\* tree call on a miss; a build served from the cache never waited for the
\* tree synthesizer
CallsOnce(h) ==
  LET before == {f \in frames : f.path = h.path}
  IN /\ h.pc = "awaitTree" =>
          h \in frames \/ (before = {} /\ KeyOf(h) \notin DOMAIN cache)
     /\ h.pc = "awaitContentHit" => h \in frames \/ before = {}
     /\ h.pc = "awaitContentMiss" =>
          h \in frames \/ (\E f \in before : f.pc = "awaitTree")
     /\ before = {} /\ KeyOf(h) \in DOMAIN cache =>
          h.pc # "awaitTree" /\ h.origin = "hit"
     /\ h.origin = "hit" =>
          h.pc # "awaitTree" /\ (\A f \in before : f.pc # "awaitTree" /\ f.origin = "hit")

\* C20: while one build processes its node the tree synthesizer and the
\* content synthesizer are each called at most once, whether the call
\* succeeds or fails, and a build served from the cache never calls the tree
\* synthesizer; a response reports at most one call of each per build made.
C20_NoRetry ==
  [][/\ \A h \in frames' : CallsOnce(h)
     /\ last'.calls.tree <= 1 + last'.calls.builds
     /\ last'.calls.content <= 1 + last'.calls.builds
     /\ last'.origin = "hit" /\ last'.calls.builds = 0 => last'.calls.tree = 0]_vars

\* the tree call of a build succeeded and its content call threw; the build
\* returned after one call of each
C20_Witness ==
  \E f \in frames :
    /\ f.pc = "returned" /\ f.origin = "miss" /\ f.contentOutcome = "threw"
    /\ stats[f.path[1]] = [tree |-> 1, content |-> 1, builds |-> 0]

(***************************************************************************)
(* C21  Children of a returned node are collapsed                          *)
(***************************************************************************)
AllChildrenCollapsed(node) ==
  \A i \in DOMAIN ChildrenOf(node) : IsCollapsed(ChildrenOf(node)[i])

\* C21: every child in the children list of a node returned by a build, the
\* top-level one or a child build, is marked collapsed = true, whether the
\* node was synthesized or served from the cache and whether its children
\* were built during the call or not.
C21_ChildrenCollapsed ==
  /\ \A f \in frames : f.pc = "returned" => AllChildrenCollapsed(f.data)
  /\ last.sent => AllChildrenCollapsed(last.node)

\* a call with maxDepth 0 synthesized a node and left its stubs unexpanded;
\* the next call, for the same topic with maxDepth 1, was served from the
\* cache and hydrated them
C21_Witness ==
  /\ last.sent /\ last.origin = "hit" /\ last.maxDepth = 1
  /\ last.calls.builds = Len(ChildrenOf(last.node)) /\ last.calls.builds > 0
  /\ previous.sent /\ previous.origin = "miss" /\ previous.maxDepth = 0
  /\ previous.topic = last.topic

(***************************************************************************)
(* C22  Depth-bounded termination                                          *)
(***************************************************************************)
ChildBuildsOf(f) ==
  {g \in frames : Len(g.path) = Len(f.path) + 1 /\ SubSeq(g.path, 1, Len(f.path)) = f.path}

DepthBounded ==
  \A f \in frames :
    /\ f.depth <= f.maxDepth
    /\ f.depth = Len(f.path) - 1
    /\ f.depth = f.maxDepth => ChildBuildsOf(f) = {}

\* C22: every top-level build returns, whatever the model answers and also
\* when it names a child after its parent or an ancestor; no build runs at a
\* depth above maxDepth, a build at depth maxDepth starts no child build,
\* and a build in progress is never left with nothing to wait for.
C22_Termination ==
  /\ []DepthBounded
  /\ [](frames # {} => Advancing)
  /\ IsRunning(<<1>>) ~> ~IsRunning(<<1>>)

\* a build with maxDepth 2 returned a node whose child and grandchild have
\* the key of the node itself
C22_Witness ==
  /\ last.sent /\ last.maxDepth = 2 /\ last.calls.builds >= 2
  /\ \E i \in DOMAIN ChildrenOf(last.node) :
       LET child == ChildrenOf(last.node)[i]
       IN /\ sanitizeTopicName(child.name) = sanitizeTopicName(last.topic)
          /\ \E j \in DOMAIN ChildrenOf(child) :
               sanitizeTopicName(ChildrenOf(child)[j].name) = sanitizeTopicName(last.topic)

(***************************************************************************)
(* C23  Children homogeneity                                               *)
(***************************************************************************)
\* a child without content fields
ContentFree(child) == DOMAIN child \cap ContentFields = {}

Homogeneous(children) ==
  \/ \A i \in DOMAIN children : ContentFree(children[i])
  \/ \A i \in DOMAIN children : ~ContentFree(children[i])

\* C23: the children list of every cache entry is either entirely stubs
\* (children without content fields) or entirely non-stubs, so the test of
\* the first child (practiceProblems === undefined) decides for the list.
C23_ChildrenHomogeneous ==
  \A k \in DOMAIN cache :
    /\ Homogeneous(ChildrenOf(cache[k]))
    /\ \A i \in DOMAIN ChildrenOf(cache[k]) :
         IsStub(ChildrenOf(cache[k])[i]) = IsStub(ChildrenOf(cache[k])[1])

====
